---- MODULE Spec2Model ----
(***************************************************************************)
(* The tswow interactive command interpreter (src/unnamed/part_000, lines  *)
(* 198-444): the tokenizer splitArgs, the Command tree, and the            *)
(* sendCommand line loop with the aliases of addCustomCommand.             *)
(*                                                                         *)
(* A string is a sequence of one-character strings, so that the code's     *)
(* character loops, split and join are computed rather than assumed.       *)
(***************************************************************************)
EXTENDS Integers, Sequences, FiniteSets, TLC

\* ------------------------------------------------------------------ bounds

\* Longest input enumerated exhaustively for the tokenizer.
MaxLen == 4

\* ------------------------------------------------------------- characters

SP == " "
QUOTE == "\""
BSLASH == "\\"

\* The characters the tokenizer's inputs are drawn from: two ordinary
\* characters and the three the code of splitArgs tests for.
Alphabet == {"a", "b", SP, QUOTE, BSLASH}

RECURSIVE StringsOfLen(_)
StringsOfLen(n) ==
    IF n = 0 THEN {<<>>}
    ELSE {Append(s, c) : s \in StringsOfLen(n - 1), c \in Alphabet}

RECURSIVE StringsUpTo(_)
StringsUpTo(n) ==
    IF n = 0 THEN {<<>>} ELSE StringsOfLen(n) \cup StringsUpTo(n - 1)

\* The worked inputs of the tokenizer's documentation.
Ex_abc == <<"a", SP, "b", SP, "c">>
Ex_quoted == <<"a", SP, QUOTE, "b", SP, "c", QUOTE, SP, "d">>
Ex_escaped == <<"a", SP, QUOTE, "b", BSLASH, QUOTE, "c", QUOTE, SP, "d">>
Ex_spaces == <<SP, SP, "a", SP, SP, SP, "b", SP>>
Ex_unterminated == <<"a", SP, QUOTE, "b", SP, "c">>

TokExamples == {Ex_abc, Ex_quoted, Ex_escaped, Ex_spaces, Ex_unterminated}

\* --------------------------------------------------------------- splitArgs

\* The locals of splitArgs before its loop (lines 205-208).
ScanStart == [args |-> <<>>, inString |-> FALSE, escaped |-> FALSE, cur |-> <<>>]

\* SplitStep with a quote that toggles the span and is also kept in the token.
SplitStep_KeepsQuote(st, c) ==
    IF c = QUOTE /\ ~st.escaped
    THEN [st EXCEPT !.inString = ~st.inString, !.cur = Append(st.cur, c)]
    ELSE IF c = BSLASH /\ st.inString /\ ~st.escaped
    THEN [st EXCEPT !.escaped = TRUE]
    ELSE IF c = SP /\ ~st.inString
    THEN [st EXCEPT !.args = Append(st.args, st.cur), !.cur = <<>>]
    ELSE [st EXCEPT !.cur = Append(st.cur, c)]

\* One iteration of the loop of splitArgs (lines 210-219) on character c.
SplitStep(st, c) ==
    IF c = QUOTE /\ ~st.escaped
    THEN [st EXCEPT !.inString = ~st.inString]
    ELSE IF c = BSLASH /\ st.inString /\ ~st.escaped
    THEN [st EXCEPT !.escaped = TRUE]
    ELSE IF c = SP /\ ~st.inString
    THEN [st EXCEPT !.args = Append(st.args, st.cur), !.cur = <<>>]
    ELSE [st EXCEPT !.cur = Append(st.cur, c)]

HasLength(x) == Len(x) > 0

\* args.filter(x => x.length > 0)
NonEmpty(ts) == SelectSeq(ts, HasLength)

\* Flush without the final filter of empty tokens.
Flush_NoFilter(st) ==
    IF Len(st.cur) > 0 THEN Append(st.args, st.cur) ELSE st.args

\* After the loop (lines 221-222): push a non-empty cur, drop empty tokens.
Flush(st) ==
    NonEmpty(IF Len(st.cur) > 0 THEN Append(st.args, st.cur) ELSE st.args)

\* The loop of splitArgs from index k on (each iteration's locals are
\* computed once, as a value, before the next iteration reads them).
RECURSIVE ScanFrom(_, _, _)
ScanFrom(str, k, st) ==
    IF k > Len(str) THEN st
    ELSE CHOOSE r \in {ScanFrom(str, k + 1, nx) : nx \in {SplitStep(st, str[k])}} :
            TRUE

\* splitArgs(command), lines 204-223.
splitArgs(str) == Flush(ScanFrom(str, 1, ScanStart))

\* ------------------------------------------------------------ string helpers

W_print == <<"p", "r", "i", "n", "t">>
W_command == <<"c", "o", "m", "m", "a", "n", "d">>
W_help == <<"h", "e", "l", "p">>
W_build == <<"b", "u", "i", "l", "d">>
W_maps == <<"m", "a", "p", "s">>
W_undefined == <<"u", "n", "d", "e", "f", "i", "n", "e", "d">>
W_NoCommand == <<"N", "o", SP, "c", "o", "m", "m", "a", "n", "d", SP>>
W_failed == <<"f", "a", "i", "l", "e", "d">>
W_x == <<"x">>
W_hi == <<"h", "i">>
W_bad == <<"b", "a", "d">>
W_a == <<"a">>
W_amp == <<"&", "&">>
W_toString == <<"t", "o", "S", "t", "r", "i", "n", "g">>
W_y == <<"y">>
W_commandx == W_command \o W_x
W_quoted_a_b == <<QUOTE, "a", SP, "b", QUOTE>>
\* The message of the TypeError of Object.values(curPrint.children) on a
\* value without children.
W_cannotConvert ==
    <<"C", "a", "n", "n", "o", "t", SP, "c", "o", "n", "v", "e", "r", "t", SP,
      "u", "n", "d", "e", "f", "i", "n", "e", "d", SP, "o", "r", SP,
      "n", "u", "l", "l", SP, "t", "o", SP, "o", "b", "j", "e", "c", "t">>
W_Multiple ==
    <<"M", "u", "l", "t", "i", "p", "l", "e", SP,
      "c", "o", "m", "m", "a", "n", "d", "s", ":", SP>>
W_hash == <<"#">>
W_notAFunction ==
    <<SP, "i", "s", SP, "n", "o", "t", SP, "a", SP,
      "f", "u", "n", "c", "t", "i", "o", "n">>
\* The messages of the TypeErrors of fc.handle(...) and child.findCommand(...)
\* on a value that is not a Command.
W_handleNotAFunction ==
    <<"f", "c", ".", "h", "a", "n", "d", "l", "e">> \o W_notAFunction
W_findNotAFunction ==
    <<"c", "h", "i", "l", "d", ".", "f", "i", "n", "d",
      "C", "o", "m", "m", "a", "n", "d">> \o W_notAFunction

\* The message of the RangeError the engine throws when a call does not fit
\* on the call stack.
W_stackExceeded ==
    <<"M", "a", "x", "i", "m", "u", "m", SP, "c", "a", "l", "l", SP,
      "s", "t", "a", "c", "k", SP, "s", "i", "z", "e", SP,
      "e", "x", "c", "e", "e", "d", "e", "d">>

\* Array.prototype.join(' ')
RECURSIVE Join(_)
Join(ts) ==
    IF ts = <<>> THEN <<>>
    ELSE IF Len(ts) = 1 THEN Head(ts)
    ELSE Head(ts) \o <<SP>> \o Join(Tail(ts))

\* String.prototype.startsWith
StartsWith(str, w) == Len(str) >= Len(w) /\ SubSeq(str, 1, Len(w)) = w

\* String.prototype.split(sep) for a non-empty separator: the pieces between
\* the occurrences of sep found left to right, empty pieces kept.
RECURSIVE Split(_, _)
Split(str, sep) ==
    LET hits == {k \in 1..(Len(str) - Len(sep) + 1) :
                    SubSeq(str, k, k + Len(sep) - 1) = sep}
    IN IF hits = {} THEN <<str>>
       ELSE LET k == CHOOSE x \in hits : \A y \in hits : x <= y
            IN <<SubSeq(str, 1, k - 1)>>
                 \o Split(SubSeq(str, k + Len(sep), Len(str)), sep)

\* The value undefined, which is not a string: what args[0] is when args is
\* empty.
Undefined == <<"undefined">>

\* args[0]
First(ts) == IF ts = <<>> THEN Undefined ELSE Head(ts)

\* The string a value becomes as a property key (obj[v]) and in a template
\* literal (`${v}`).
PropertyKey(v) == IF v = Undefined THEN W_undefined ELSE v

\* A property key: an absent first argument is the key "undefined".
Key(ts) == IF ts = <<>> THEN W_undefined ELSE Head(ts)

\* Array.prototype.slice(1)
Slice1(ts) == IF ts = <<>> THEN <<>> ELSE Tail(ts)

\* ------------------------------------------------------------- Command tree

\* The heap of Command objects: a function from object ids to
\* [name, parent, handler, children], children a function from names to ids.
RootId == 1
NoParent == 0

NoChildren == [k \in {} |-> RootId]

NoHandler == [kind |-> "none", args |-> <<>>]
PrintHandler == [kind |-> "print", args |-> <<>>]
CommandHandler == [kind |-> "command", args |-> <<>>]
HelpHandler == [kind |-> "help", args |-> <<>>]
\* A handler registered by another module (MapData.initialize): it runs an
\* external program, and returns or throws when that program is done.
MapsHandler == [kind |-> "maps", args |-> <<>>]
\* The closure addCustomCommand registers: it keeps the token array args.
AliasHandler(ts) == [kind |-> "alias", args |-> ts]

\* new Command(name, argDesc, description, onCommand, parent)
NewCommand(name, handler, parent) ==
    [name |-> name, parent |-> parent, handler |-> handler,
     children |-> NoChildren]

\* children is an object literal ({}, line 234): besides the commands added
\* to it, a lookup finds what every object inherits from Object.prototype
\* (toString stands for those names), which is not a Command.
ObjectPrototype == {W_toString}

Inherited(name) == name \in ObjectPrototype

\* children has name as an own property: a Command added and not removed.
HasChild(h, p, name) == name \in DOMAIN h[p].children

\* this.children[name] !== undefined
Defined(h, p, name) == HasChild(h, p, name) \/ Inherited(name)

FreshId(h) == CHOOSE n \in 1..(Cardinality(DOMAIN h) + 1) : n \notin DOMAIN h

\* The objects reachable from the objects of S through children.
RECURSIVE Reach(_, _)
Reach(h, S) ==
    CHOOSE r \in
        {IF T = S THEN S ELSE Reach(h, T) :
            T \in {S \cup UNION {{h[n].children[k] : k \in DOMAIN h[n].children}
                                    : n \in S}}} : TRUE

\* A deleted child is garbage: the heap keeps the objects the root reaches.
Collect(h) == [n \in Reach(h, {RootId}) |-> h[n]]

\* Command.fullname (lines 251-252).
RECURSIVE fullname(_, _)
fullname(h, n) ==
    IF h[n].parent # NoParent /\ h[h[n].parent].parent # NoParent
    THEN PropertyKey(fullname(h, h[n].parent)) \o <<SP>>
            \o PropertyKey(h[n].name)
    ELSE h[n].name

\* Command.addCommand (lines 266-271): [thrown, message, heap].
addCommand(h, p, name, handler) ==
    IF Defined(h, p, PropertyKey(name))
    THEN [thrown |-> TRUE,
          message |-> W_Multiple \o PropertyKey(fullname(h, p)) \o W_hash
                         \o PropertyKey(name),
          heap |-> h]
    ELSE LET id == FreshId(h)
             kids == h[p].children
             key == PropertyKey(name)
         IN [thrown |-> FALSE, message |-> <<>>,
             heap |-> [n \in DOMAIN h \cup {id} |->
                         IF n = id THEN NewCommand(name, handler, p)
                         ELSE IF n = p
                         THEN [h[p] EXCEPT !.children =
                                 [k \in DOMAIN kids \cup {key} |->
                                     IF k = key THEN id ELSE kids[k]]]
                         ELSE h[n]]]

\* removeCommand leaving the child where it is.
removeCommand_Keeps(h, p, name) == h

\* Command.removeCommand (lines 277-281): delete leaves an inherited name.
removeCommand(h, p, name) ==
    IF HasChild(h, p, PropertyKey(name))
    THEN LET kids == h[p].children
         IN CHOOSE r \in
                {Collect(h1) :
                    h1 \in {[h EXCEPT ![p].children =
                                [k \in DOMAIN kids \ {PropertyKey(name)} |->
                                    kids[k]]]}} :
                TRUE
    ELSE h

\* Command.findCommand (lines 287-295): [thrown, node]; the call of
\* findCommand on an inherited value is a TypeError.
RECURSIVE findCommand(_, _, _)
findCommand(h, n, input) ==
    IF Len(input) = 0 THEN [thrown |-> FALSE, node |-> n]
    ELSE IF HasChild(h, n, input[1])
    THEN findCommand(h, h[n].children[input[1]], Tail(input))
    ELSE IF Inherited(input[1]) THEN [thrown |-> TRUE, node |-> n]
    ELSE [thrown |-> FALSE, node |-> n]

\* The Error of Command.handle (line 317).
NoCommandMessage(h, n, ts) ==
    W_NoCommand
      \o (IF h[n].parent # NoParent
          THEN PropertyKey(fullname(h, n)) \o <<SP>> ELSE <<>>)
      \o Key(ts)

\* Command.handle (lines 310-321) up to the call of the handler: either what
\* is thrown (the TypeError of fc.handle on an inherited value, the Error
\* for a node without handler), or the node whose handler is called and the
\* arguments it is called with.
RECURSIVE handle(_, _, _)
handle(h, n, ts) ==
    IF HasChild(h, n, Key(ts))
    THEN handle(h, h[n].children[Key(ts)], Slice1(ts))
    ELSE IF Inherited(Key(ts))
    THEN [thrown |-> TRUE, node |-> n, args |-> ts,
          message |-> W_handleNotAFunction]
    ELSE IF h[n].handler = NoHandler
    THEN [thrown |-> TRUE, node |-> n, args |-> ts,
          message |-> NoCommandMessage(h, n, ts)]
    ELSE [thrown |-> FALSE, node |-> n, args |-> ts, message |-> <<>>]

\* The help handler with a child of the walked node removed as well.
help_Detaches(h, ts) ==
    [thrown |-> FALSE, warned |-> FALSE, message |-> <<>>,
     heap |-> [h EXCEPT ![RootId].children =
                 [k \in DOMAIN h[RootId].children \ {W_build} |->
                     h[RootId].children[k]]]]

\* The walk of the help handler (lines 416-422) from cur along ts: the node
\* to print, or the warning for a segment that names nothing, or the
\* TypeError of going on from, or printing, an inherited value.
RECURSIVE helpWalk(_, _, _)
helpWalk(h, cur, ts) ==
    IF ts = <<>>
    THEN [thrown |-> FALSE, warned |-> FALSE, message |-> <<>>, node |-> cur]
    ELSE IF HasChild(h, cur, Head(ts))
    THEN helpWalk(h, h[cur].children[Head(ts)], Tail(ts))
    ELSE IF Inherited(Head(ts))
    THEN [thrown |-> TRUE, warned |-> FALSE, message |-> W_cannotConvert,
          node |-> cur]
    ELSE [thrown |-> FALSE, warned |-> TRUE, message |-> <<>>, node |-> cur]

\* The help handler (lines 415-443): it walks, warns or prints, and leaves
\* the tree as it is.
help(h, ts) ==
    CHOOSE o \in
        {[thrown |-> wk.thrown, warned |-> wk.warned, message |-> wk.message,
          heap |-> h] : wk \in {helpWalk(h, RootId, ts)}} : TRUE

\* --------------------------------------------------------------- aliases

\* addCustomCommand (lines 392-400) on [customCommands, commandfile, heap]:
\* the mapping gets name -> join, the whole mapping is written to the file,
\* the root's child of that name is removed and the alias node is added;
\* when addCommand throws, the mapping and the file keep the new entry.
addCustomCommand(w, name, ts) ==
    CHOOSE r \in UNION
        {{[customCommands |-> cc, commandfile |-> cc, heap |-> a.heap,
           thrown |-> a.thrown, message |-> a.message] :
            cc \in {[k \in DOMAIN w.customCommands
                                \cup {PropertyKey(name)} |->
                        IF k = PropertyKey(name) THEN Join(ts)
                        ELSE w.customCommands[k]]},
            a \in {addCommand(h1, RootId, name, AliasHandler(ts))}} :
          h1 \in {removeCommand(w.heap, RootId, name)}} : TRUE

\* --------------------------------------------------------------- startup

\* The alias files a previous session may have left: none, or one alias.
NoFile == [k \in {} |-> <<>>]
OneAliasFile == [k \in {W_x} |-> Join(<<W_print, W_a>>)]
\* y -> x beside x -> print a: what the lines "command x print a" and
\* "command y x" leave in the file.
ChainFile ==
    [k \in {W_x, W_y} |-> IF k = W_x THEN Join(<<W_print, W_a>>) ELSE W_x]
StartFiles == {NoFile, OneAliasFile, ChainFile}

\* for (const key in customCommands) addCustomCommand(key, value.split(' '))
\* (lines 407-411), the keys taken from todo.
RECURSIVE ReplayAliases(_, _)
ReplayAliases(w, todo) ==
    IF todo = {} THEN w
    ELSE LET key == CHOOSE k \in todo : TRUE
             r == addCustomCommand(w, key, Split(w.customCommands[key], <<SP>>))
         IN IF r.thrown THEN r ELSE ReplayAliases(r, todo \ {key})

\* The namespace's top level (lines 328-443) run on the alias file found,
\* followed by the registrations of the build commands (lines 113-180).
\* A statement of the top level that throws ends the run there: thrown, with
\* the Error's message, and what was done before it.
Startup(file) ==
    LET h0 == [n \in {RootId} |-> NewCommand(<<>>, NoHandler, NoParent)]
        h1 == addCommand(h0, RootId, W_print, PrintHandler).heap
        h2 == addCommand(h1, RootId, W_command, CommandHandler).heap
        w3 == ReplayAliases(
                  [customCommands |-> file, commandfile |-> file, heap |-> h2,
                   thrown |-> FALSE, message |-> <<>>],
                  DOMAIN file)
        a4 == addCommand(w3.heap, RootId, W_help, HelpHandler)
        h5 == addCommand(a4.heap, RootId, W_build, NoHandler).heap
        h6 == addCommand(h5, h5[RootId].children[W_build], W_maps,
                         MapsHandler).heap
    IN IF w3.thrown THEN w3
       ELSE IF a4.thrown
       THEN [w3 EXCEPT !.thrown = TRUE, !.message = a4.message]
       ELSE [w3 EXCEPT !.heap = h6]

\* ------------------------------------------------------------------- state

\* Lines being executed at once (only the slots are bounded, not the code).
MaxTasks == 2

Slots == 1..MaxTasks

VARIABLES
    enabled,         \* term.setEnabled: the input surface accepts a line
    heap,            \* the Command objects reachable from rootCommand
    customCommands,  \* the in-memory alias mapping
    commandfile,     \* the content of ./config/commands.yaml
    tasks,           \* per slot, the stack of sendCommand calls of one line
    unhandled,       \* a call of sendCommand by the input callback rejected
    running,         \* the namespace's top level ran to its end without throwing
    api,             \* the last call of an exported operation and its outcome
    scan             \* one call of splitArgs in progress: input, index, locals

vars ==
    <<enabled, heap, customCommands, commandfile, tasks, unhandled, running,
      api, scan>>

\* What the interpreter's own steps leave alone.
others == <<running, api>>

ApiIdle == [op |-> "none"]

ScanIdle == [pc |-> "idle"]

\* The calls of sendCommand that fit on the call stack one inside the other
\* (the engine's limit, which is in the thousands, scaled down).
MaxStack == 3

\* ------------------------------------------------------------- sendCommand

\* The lines a user types.
Line_bad_print == Join(<<W_bad, W_amp, W_print, W_hi>>)
Line_blank == <<>>
Line_print_trailing == Join(<<W_print, W_hi, W_amp>>)
Line_define_x == Join(<<W_command, W_x, W_print, W_a>>)
Line_x_maps == Join(<<W_x, W_amp, W_build, W_maps>>)
Line_maps_print == Join(<<W_build, W_maps, W_amp, W_print, W_hi>>)
Line_help == W_help
Line_toString == W_toString
Line_bad_toString == Join(<<W_bad, W_amp, W_toString, W_amp, W_print, W_hi>>)
Line_define_toString ==
    Join(<<W_command, <<QUOTE>> \o W_toString \o <<QUOTE>>, W_print, W_a>>)
Line_redefine_x == Join(<<W_command, W_x, W_toString>>)
Line_x_quoted == Join(<<W_x, W_quoted_a_b>>)
Line_y == W_y
Line_commandx == Join(<<W_commandx, W_amp, W_print, W_hi>>)
Line_define_help == Join(<<W_command, W_help, W_print, W_a>>)
Line_help_bad == Join(<<W_help, W_bad>>)

Lines ==
    {Line_bad_print, Line_blank, Line_print_trailing, Line_define_x,
     Line_x_maps, Line_maps_print, Line_help, Line_toString,
     Line_bad_toString, Line_define_toString, Line_redefine_x,
     Line_x_quoted, Line_y, Line_commandx, Line_define_help, Line_help_bad}

\* What a build handler may do once its external program is done: return,
\* throw an Error with a message, or throw a value without a message.
Outcomes == {"return", "error", "value"}

\* The handler call awaited: its kind, its arguments and, for an alias, the
\* tokens args.concat(runArgs) it sends on (line 398).
NoCall == [kind |-> "none", args |-> <<>>, tokens |-> <<>>]

\* rootCommand.findCommand(input.split(' ').filter(x => x.length > 0)) of
\* line 331 throws: the call of sendCommand rejects before it does anything.
Rejects(h, input) ==
    \E words \in {NonEmpty(Split(input, <<SP>>))} :
        findCommand(h, RootId, words).thrown

\* One call of sendCommand after lines 331-340: the statements coms, the
\* index i of the loop, whether it is at an await and of which handler call,
\* the statements dispatched (started, in order), those whose handler has
\* not settled (running), and what each settled statement did (res); depth
\* counts the calls of sendCommand on the call stack while this one runs: 1
\* when it runs from the event loop or from a continuation.
NewFrame(input) ==
    [coms |-> IF StartsWith(input, W_command) THEN <<input>>
              ELSE Split(input, W_amp),
     i |-> 1, pc |-> "loop", call |-> NoCall, running |-> {},
     started |-> <<>>, res |-> <<>>, depth |-> 1]

Top(t) == tasks[t][Len(tasks[t])]

Active(t) == tasks[t] # <<>>

\* The task has a continuation in the microtask queue.
Ready(t) == Active(t) /\ Top(t).pc = "loop"

\* The task awaits a build handler's external program.
Suspended(t) == Active(t) /\ Top(t).pc = "await"

\* The event loop takes the next event (an input line, a finished program)
\* only when no continuation is left to run.
LoopIdle == \A t \in Slots : ~Ready(t)

\* term.error calls of the catch clause (lines 347-353) for a thrown value.
TermErrors(message) == IF message # <<>> THEN 1 ELSE 0

\* handle() of statement i has settled: the loop goes on to the next one,
\* after the await of line 345 in a continuation on an empty call stack.
Settle(f, entry) ==
    [f EXCEPT !.res = Append(f.res, entry), !.running = f.running \ {f.i},
              !.i = f.i + 1, !.pc = "loop", !.call = NoCall, !.depth = 1]

\* The catch clause with the failure leaving the loop instead.
Catch_Propagates(f, kind, ts, message) ==
    [f EXCEPT !.res = Append(f.res,
                  [kind |-> kind, args |-> ts, failed |-> TRUE,
                   message |-> message, errors |-> TermErrors(message)]),
              !.running = f.running \ {f.i},
              !.i = Len(f.coms) + 1, !.pc = "loop"]

\* The failure rejecting the call of sendCommand: nothing after it runs.
Catch_Rejects(f, kind, ts, message) ==
    [f EXCEPT !.running = f.running \ {f.i}, !.pc = "rejected"]

\* try { await rootCommand.handle(args) } catch (error) { ... } (lines
\* 344-354) when handle throws or rejects.
Catch(f, kind, ts, message) ==
    Settle(f, [kind |-> kind, args |-> ts, failed |-> TRUE,
               message |-> message, errors |-> TermErrors(message)])

\* handle() returned normally.
Returned(f, kind, ts) ==
    Settle(f, [kind |-> kind, args |-> ts, failed |-> FALSE,
               message |-> <<>>, errors |-> 0])

\* rootCommand.handle(args) is called for statement i (line 345).
Called(f) == [f EXCEPT !.started = Append(f.started, f.i)]

\* The loop going on to the next statement while the handler still runs.
Await_NotAwaited(f, kind, ts) ==
    [Called(f) EXCEPT !.running = f.running \cup {f.i}, !.i = f.i + 1]

\* await this.handler(args) (line 319) on a handler that is not done yet.
Await(f, kind, ts) ==
    [Called(f) EXCEPT !.running = f.running \cup {f.i}, !.pc = "await",
                      !.call = [kind |-> kind, args |-> ts, tokens |-> <<>>]]

SetTop(t, f) == [tasks[t] EXCEPT ![Len(tasks[t])] = f]

World == [customCommands |-> customCommands, commandfile |-> commandfile,
          heap |-> heap]

Init ==
    \E file \in StartFiles :
        LET w == Startup(file)
        IN /\ heap = w.heap
           /\ customCommands = w.customCommands
           /\ commandfile = w.commandfile
           /\ enabled = TRUE
           /\ tasks = [t \in Slots |-> <<>>]
           /\ unhandled = FALSE
           /\ running = ~w.thrown
           /\ api = ApiIdle
           /\ scan = ScanIdle

\* The input callback of enterLoop (lines 362-367) with a line, delivered
\* while the input surface is enabled: sendCommand up to its loop, or up to
\* line 331 when that throws; the callback drops the promise either way.
Submit(input) ==
    /\ running
    /\ enabled
    /\ LoopIdle
    /\ \E t \in Slots : ~Active(t)
    /\ IF Rejects(heap, input)
       THEN /\ unhandled' = TRUE
            /\ UNCHANGED <<enabled, tasks>>
       ELSE /\ LET t == CHOOSE s \in Slots : ~Active(s)
               IN tasks' = [tasks EXCEPT ![t] = <<NewFrame(input)>>]
            /\ enabled' = FALSE
            /\ UNCHANGED unhandled
    /\ UNCHANGED <<heap, customCommands, commandfile, scan, others>>

\* Where the RangeError is thrown when an alias handler is reached with the
\* call stack full, which the engine decides: at the call of line 345 itself
\* (the catch clause runs at once and the loop goes on without a
\* continuation, so the calls of line 345 of the statements that follow do
\* not fit either: depth MaxStack + 1), in a call below it (handle, the
\* handler or the sendCommand it calls: the promise awaited at line 345
\* rejects and the catch clause runs in a continuation), or again in the
\* catch clause (this call of sendCommand rejects to its caller).
StackOverflows == {"try", "callee", "catch"}

\* One iteration of the loop of sendCommand (lines 342-355): the statement
\* is tokenized and dispatched from the root. An alias handler calls
\* sendCommand before anything is awaited, so the call nests on the stack.
Dispatch(t) ==
    /\ Ready(t)
    /\ Top(t).i <= Len(Top(t).coms)
    /\ \E f \in {Top(t)} :
       \E args \in {splitArgs(f.coms[f.i])} :
       \E r \in {handle(heap, RootId, args)} :
       \E hd \in {heap[r.node].handler} :
          IF f.depth > MaxStack
          THEN /\ tasks' = [tasks EXCEPT ![t] = SetTop(t,
                     [Catch(Called(f), "none", args, W_stackExceeded)
                         EXCEPT !.depth = f.depth])]
               /\ UNCHANGED <<enabled, heap, customCommands, commandfile>>
          ELSE IF r.thrown
          THEN /\ tasks' = [tasks EXCEPT ![t] =
                     SetTop(t, Catch(Called(f), "none", r.args, r.message))]
               /\ UNCHANGED <<enabled, heap, customCommands, commandfile>>
          ELSE IF hd.kind = "command"
          THEN \E w \in {addCustomCommand(World, First(r.args), Slice1(r.args))} :
                  /\ heap' = w.heap
                  /\ customCommands' = w.customCommands
                  /\ commandfile' = w.commandfile
                  /\ tasks' = [tasks EXCEPT ![t] = SetTop(t,
                        IF w.thrown
                        THEN Catch(Called(f), hd.kind, r.args, w.message)
                        ELSE Returned(Called(f), hd.kind, r.args))]
                  /\ UNCHANGED enabled
          ELSE IF hd.kind = "alias" /\ f.depth >= MaxStack
          THEN \E where \in StackOverflows :
                  IF where = "try"
                  THEN /\ tasks' = [tasks EXCEPT ![t] = SetTop(t,
                             [Catch(Called(f), "none", args,
                                    W_stackExceeded)
                                 EXCEPT !.depth = MaxStack + 1])]
                       /\ UNCHANGED <<enabled, heap, customCommands,
                                      commandfile>>
                  ELSE IF where = "callee"
                  THEN /\ tasks' = [tasks EXCEPT ![t] = SetTop(t,
                             Catch(Called(f), hd.kind, r.args,
                                   W_stackExceeded))]
                       /\ \E e \in {enabled, FALSE} : enabled' = e
                       /\ UNCHANGED <<heap, customCommands, commandfile>>
                  ELSE /\ \E rest \in {SubSeq(tasks[t], 1,
                                               Len(tasks[t]) - 1)} :
                          \E g \in {rest[Len(rest)]} :
                             tasks' = [tasks EXCEPT ![t] =
                                [rest EXCEPT ![Len(rest)] =
                                    Catch(g, g.call.kind, g.call.args,
                                          W_stackExceeded)]]
                       /\ UNCHANGED <<enabled, heap, customCommands,
                                      commandfile>>
          ELSE IF hd.kind = "alias"
          THEN \E input \in {Join(hd.args \o r.args)} :
                  IF Rejects(heap, input)
                  THEN /\ tasks' = [tasks EXCEPT ![t] = SetTop(t,
                             Catch(Called(f), hd.kind, r.args,
                                   W_findNotAFunction))]
                       /\ UNCHANGED <<enabled, heap, customCommands,
                                      commandfile>>
                  ELSE /\ tasks' = [tasks EXCEPT ![t] =
                             Append(SetTop(t,
                                      [Await(f, hd.kind, r.args) EXCEPT
                                          !.call.tokens = hd.args \o r.args]),
                                    [NewFrame(input) EXCEPT
                                          !.depth = f.depth + 1])]
                       /\ enabled' = FALSE
                       /\ UNCHANGED <<heap, customCommands, commandfile>>
          ELSE IF hd.kind = "help"
          THEN \E o \in {help(heap, r.args)} :
                  /\ heap' = o.heap
                  /\ tasks' = [tasks EXCEPT ![t] = SetTop(t,
                        IF o.thrown
                        THEN Catch(Called(f), hd.kind, r.args, o.message)
                        ELSE Returned(Called(f), hd.kind, r.args))]
                  /\ UNCHANGED <<enabled, customCommands, commandfile>>
          ELSE IF hd.kind = "maps"
          THEN /\ tasks' = [tasks EXCEPT ![t] =
                     SetTop(t, Await(f, hd.kind, r.args))]
               /\ UNCHANGED <<enabled, heap, customCommands, commandfile>>
          ELSE /\ tasks' = [tasks EXCEPT ![t] =
                     SetTop(t, Returned(Called(f), hd.kind, r.args))]
               /\ UNCHANGED <<enabled, heap, customCommands, commandfile>>
    /\ UNCHANGED <<unhandled, scan, others>>

\* The loop of sendCommand is over (line 356): the input surface is enabled
\* and the call returns, to the alias handler awaiting it if there is one.
Return(t) ==
    /\ Ready(t)
    /\ Top(t).i > Len(Top(t).coms)
    /\ enabled' = TRUE
    /\ LET rest == SubSeq(tasks[t], 1, Len(tasks[t]) - 1)
       IN tasks' = [tasks EXCEPT ![t] =
             IF rest = <<>> THEN <<>>
             ELSE LET g == rest[Len(rest)]
                  IN [rest EXCEPT ![Len(rest)] =
                        Returned(g, g.call.kind, g.call.args)]]
    /\ UNCHANGED <<heap, customCommands, commandfile, unhandled, scan, others>>

\* The external program of a build handler is done: the handler returns or
\* throws, and the awaiting loop goes on.
Complete(t, outcome) ==
    /\ LoopIdle
    /\ Suspended(t)
    /\ LET f == Top(t)
       IN tasks' = [tasks EXCEPT ![t] = SetTop(t,
             IF outcome = "return" THEN Returned(f, f.call.kind, f.call.args)
             ELSE IF outcome = "error"
             THEN Catch(f, f.call.kind, f.call.args, W_failed)
             ELSE Catch(f, f.call.kind, f.call.args, <<>>))]
    /\ UNCHANGED <<enabled, heap, customCommands, commandfile, unhandled,
                   scan, others>>

\* The process ends at the prompt and is started again: the namespace's top
\* level runs on the alias file as the session left it, and enterLoop
\* enables the input surface if the top level did not throw.
Restart ==
    /\ running
    /\ \A t \in Slots : ~Active(t)
    /\ \E w \in {Startup(commandfile)} :
          /\ heap' = w.heap
          /\ customCommands' = w.customCommands
          /\ commandfile' = w.commandfile
          /\ running' = ~w.thrown
          /\ enabled' = ~w.thrown
    /\ unhandled' = FALSE
    /\ UNCHANGED <<tasks, api, scan>>

Next ==
    \/ Restart
    \/ \E input \in Lines : Submit(input)
    \/ \E t \in Slots : Dispatch(t)
    \/ \E t \in Slots : Return(t)
    \/ \E t \in Slots, outcome \in Outcomes : Complete(t, outcome)

Spec == Init /\ [][Next]_vars

\* Continuations in the microtask queue run, and (the premise of the
\* responsiveness claim) every external program ends: its completion is an
\* event of the loop's queue, which input lines arriving later do not
\* overtake for ever, hence the strong fairness per task.
FairSpec ==
    /\ Init
    /\ [][Next]_vars
    /\ WF_vars(\E t \in Slots : Dispatch(t))
    /\ WF_vars(\E t \in Slots : Return(t))
    /\ \A t \in Slots : SF_vars(\E outcome \in Outcomes : Complete(t, outcome))

\* ------------------------------------------------ sendCommand: the claims

\* The sendCommand calls in progress: <<slot, depth>>.
Frames == UNION {{<<t, d>> : d \in 1..Len(tasks[t])} : t \in Slots}

FrameAt(td) == tasks[td[1]][td[2]]

\* The line typed in slot t still has a statement that has not completed.
LineRunning(t) == Active(t) /\ tasks[t][1].i <= Len(tasks[t][1].coms)

\* C1: from the start of sendCommand on a typed line until the last
\* statement of that line has completed, the input surface is disabled.
C1_DisabledWhileLineRuns ==
    \A t \in Slots : LineRunning(t) => enabled = FALSE

\* C2: no two typed lines are ever executing at the same time.
C2_OneLineAtATime ==
    Cardinality({t \in Slots : LineRunning(t)}) <= 1

\* C3: in every sendCommand call the statements are dispatched once each
\* from left to right, each after the one before it has settled, and a
\* statement's handler never runs while another statement of the call does.
C3_InOrderNoOverlap ==
    \A td \in Frames :
        LET f == FrameAt(td)
        IN /\ f.started = [k \in 1..Len(f.started) |-> k]
           /\ Len(f.started) <= Len(f.coms)
           /\ f.running \subseteq {f.i}
           /\ Cardinality(f.running) <= 1
           /\ f.pc = "loop" => (f.running = {} /\ Len(f.res) = f.i - 1)
           /\ f.pc = "await" => (f.running = {f.i} /\ Len(f.started) = f.i)
           /\ f.i > Len(f.coms) => Len(f.res) = Len(f.coms)

\* C3 witness: the second statement of "build maps && print hi" has been
\* dispatched after the build handler of the first was awaited and settled.
C3_Witness ==
    \E td \in Frames :
        LET f == FrameAt(td)
        IN /\ f.coms = Split(Line_maps_print, W_amp)
           /\ Len(f.res) = 2
           /\ f.res[1].kind = "maps"
           /\ f.res[2].kind = "print"
           /\ f.started = <<1, 2>>

\* C4: a failed statement (unknown command, handler failure) is recorded
\* and the loop goes on to the statement after it, so that a call of
\* sendCommand ends only when all its statements were dispatched; the line
\* "bad && print hi" reports "No command bad" and still calls print with hi,
\* and "bad && toString && print hi" still calls print after two failures.
C4_ErrorIsolation ==
    \A td \in Frames :
        LET f == FrameAt(td)
        IN /\ f.i <= Len(f.coms) + 1
           /\ \A k \in 1..Len(f.res) : f.res[k].failed => f.i > k
           /\ f.pc = "loop" => f.i = Len(f.res) + 1
           /\ (f.coms = Split(Line_bad_toString, W_amp) /\ f.i = 4) =>
                 /\ f.res[2].failed
                 /\ f.res[2].message = W_handleNotAFunction
                 /\ f.res[3].kind = "print"
                 /\ ~f.res[3].failed
           /\ (f.coms = Split(Line_bad_print, W_amp) /\ f.i = 3) =>
                 /\ f.res[1].failed
                 /\ f.res[1].kind = "none"
                 /\ f.res[1].message = W_NoCommand \o W_bad
                 /\ f.res[2] = [kind |-> "print", args |-> <<W_hi>>,
                                failed |-> FALSE, message |-> <<>>,
                                errors |-> 0]

\* C4 witness: a call whose first statement failed, by an unknown command
\* or by the handler throwing, has run its second statement.
C4_Witness ==
    \E td \in Frames :
        LET f == FrameAt(td)
        IN /\ f.i = 3
           /\ Len(f.res) = 2
           /\ f.res[1].failed
           /\ f.res[1].kind \in {"none", "maps"}
           /\ f.res[2].kind = "print"
           /\ ~f.res[2].failed

\* C5: every failed statement has at least one term.error message.
C5_EveryFailureReported ==
    \A td \in Frames :
        \A k \in 1..Len(FrameAt(td).res) :
            FrameAt(td).res[k].failed => FrameAt(td).res[k].errors >= 1

\* C6: whatever failed, the input surface is enabled again and every typed
\* line ends, given that the handlers it calls return or fail: a disabled
\* surface leads to an enabled one and a line in progress to its end, that
\* is, the surface of the running interpreter is enabled, and each slot
\* free, again and again.
C6_Responsive ==
    /\ []<>(running => enabled = TRUE)
    /\ \A t \in Slots : []<>(~Active(t))

\* C6 witness: a typed line two of whose statements failed is at the end of
\* its loop, about to enable the input surface.
C6_Witness ==
    \E t \in Slots :
        /\ Len(tasks[t]) = 1
        /\ ~enabled
        /\ tasks[t][1].i > Len(tasks[t][1].coms)
        /\ Cardinality({k \in 1..Len(tasks[t][1].res) :
                           tasks[t][1].res[k].failed}) >= 2

\* C7: dispatching an empty token sequence from the root does nothing: no
\* handler is called, nothing fails and nothing is sent to term.error.
C7_EmptyDispatchNoOp ==
    \A td \in Frames :
        LET f == FrameAt(td)
        IN \A k \in 1..Len(f.res) :
              splitArgs(f.coms[k]) = <<>> =>
                  /\ f.res[k].kind = "none"
                  /\ ~f.res[k].failed
                  /\ f.res[k].errors = 0

\* ------------------------------------------------- aliases: the claims

\* The calls of sendCommand made by an alias handler that have not started
\* their loop: <<slot, depth>> of the call, the alias call being one above.
AliasEntries ==
    {td \in Frames :
        /\ td[2] >= 2
        /\ FrameAt(td).i = 1
        /\ FrameAt(td).pc = "loop"
        /\ FrameAt(td).res = <<>>}

Caller(td) == tasks[td[1]][td[2] - 1]

\* C14: invoking an alias dispatches what dispatching its expansion followed
\* by the runtime arguments dispatches: the call of sendCommand it makes has
\* one statement, whose tokens select the same handler with the same
\* arguments (or throw the same Error) as the tokens E ++ R themselves.
C14_AliasRoundTrip ==
    \A td \in AliasEntries :
        LET f == FrameAt(td)
            g == Caller(td)
        IN /\ Len(f.coms) = 1
           /\ handle(heap, RootId, splitArgs(f.coms[1]))
                 = handle(heap, RootId, g.call.tokens)

\* C16: an alias runs the definition its name has when it is invoked: the
\* input the handler sends on is the current entry of the invoked name in
\* the alias mapping followed by the runtime arguments, also when the alias
\* is invoked by another alias defined before that entry was written.
C16_LateBinding ==
    \A td \in AliasEntries :
        LET f == FrameAt(td)
            g == Caller(td)
            name == Head(splitArgs(g.coms[g.i]))
        IN /\ name \in DOMAIN customCommands
           /\ HasChild(heap, RootId, name)
           /\ Join(g.call.tokens)
                 = Join(Split(customCommands[name], <<SP>>) \o g.call.args)
           /\ f.coms = NewFrame(Join(g.call.tokens)).coms

\* C16 witness: y, defined as x, is running x, and what x runs is the
\* definition written by "command x toString", not the print a it had: the
\* call made for x failed on toString.
C16_Witness ==
    \E t \in Slots :
        /\ Len(tasks[t]) = 2
        /\ tasks[t][1].coms = <<Line_y>>
        /\ customCommands[W_y] = W_x
        /\ customCommands[W_x] = W_toString
        /\ tasks[t][2].coms = <<W_x>>
        /\ Len(tasks[t][2].res) = 1
        /\ tasks[t][2].res[1].kind = "alias"
        /\ tasks[t][2].res[1].failed
        /\ tasks[t][2].res[1].message = W_findNotAFunction

\* C15: every alias file a session leaves is one the next start completes
\* on: the top level runs to its end, and every entry of the file is then a
\* child of the root whose handler sends on the entry's tokens.
C15_AliasesSurviveRestart ==
    /\ running
    /\ \E w \in {Startup(commandfile)} :
          /\ ~w.thrown
          /\ \A k \in DOMAIN commandfile :
                /\ HasChild(w.heap, RootId, k)
                /\ w.heap[w.heap[RootId].children[k]].handler
                      = AliasHandler(Split(commandfile[k], <<SP>>))

\* The string begins with the word w: w, then a space or the end.
BeginsWithWord(str, w) ==
    /\ StartsWith(str, w)
    /\ (Len(str) = Len(w) \/ str[Len(w) + 1] = SP)

Contains(str, sep) ==
    \E k \in 1..(Len(str) - Len(sep) + 1) :
        SubSeq(str, k, k + Len(sep) - 1) = sep

\* C17: the statements of a call of sendCommand are the pieces of its input
\* between the occurrences of &&, unless the input begins with the word
\* command, when the input is the one statement: a single statement holds
\* && only in an input beginning with that word, and several statements
\* hold none and do not begin with it.
C17_StatementSplitting ==
    \A td \in Frames :
        LET f == FrameAt(td)
        IN IF Len(f.coms) = 1
           THEN Contains(f.coms[1], W_amp)
                    => BeginsWithWord(f.coms[1], W_command)
           ELSE /\ \A k \in 1..Len(f.coms) : ~Contains(f.coms[k], W_amp)
                /\ ~BeginsWithWord(f.coms[1], W_command)

\* The step completes a statement of slot t whose handler was of a kind in
\* kinds ("none": no handler was called, handle threw).
Completes(t, kinds) ==
    /\ Active(t)
    /\ Len(tasks'[t]) = Len(tasks[t])
    /\ LET f == Top(t)
           f2 == tasks'[t][Len(tasks[t])]
       IN /\ Len(f2.res) = Len(f.res) + 1
          /\ f2.res[Len(f2.res)].kind \in kinds

\* The step is a line arriving: findCommand of line 331, and the start of
\* the loop if that did not throw.
Arrives ==
    \/ ~unhandled /\ unhandled'
    \/ \E t \in Slots : ~Active(t) /\ tasks'[t] # <<>>

\* The step is the start of the process: no line is in progress before or
\* after it, and the top level makes its registrations.
Starts == \A t \in Slots : tasks[t] = <<>> /\ tasks'[t] = <<>>

\* C19: a step that resolves an arriving line, or completes print, help or
\* a dispatch that threw before any handler, leaves the tree, the alias
\* mapping and the alias file as they were; they change only in a step that
\* completes the alias-definition command, or in the registrations of a
\* start of the process.
C19_ReadOnlyOperations ==
    /\ [][(Arrives \/ \E t \in Slots : Completes(t, {"print", "help", "none"}))
             => UNCHANGED <<heap, customCommands, commandfile>>]_vars
    /\ [][(heap' # heap \/ customCommands' # customCommands
                        \/ commandfile' # commandfile)
             => (Starts \/ \E t \in Slots : Completes(t, {"command"}))]_vars

\* C19 witness: help was run on a path that names nothing and on the empty
\* path, and an unknown command was dispatched, in one session.
C19_Witness ==
    \E t \in Slots :
        /\ Len(tasks[t]) = 1
        /\ tasks[t][1].coms = <<Line_help_bad>>
        /\ Len(tasks[t][1].res) = 1
        /\ tasks[t][1].res[1] =
              [kind |-> "help", args |-> <<W_bad>>, failed |-> FALSE,
               message |-> <<>>, errors |-> 0]
        /\ heap = Startup(NoFile).heap

\* C20: print, command and help are children of the root with the handlers
\* they were registered with, whatever lines were typed.
C20_BuiltinsStay ==
    running =>
        \A b \in {<<W_print, PrintHandler>>, <<W_command, CommandHandler>>,
                  <<W_help, HelpHandler>>} :
            /\ HasChild(heap, RootId, b[1])
            /\ heap[heap[RootId].children[b[1]]].handler = b[2]

\* ------------------------------------------------- aliases that re-enter

\* Lines that define an alias whose expansion invokes the alias itself, once
\* or twice, or another alias that leads back to it, and lines that invoke
\* them. No handler but the alias handlers is awaited on these lines.
Line_define_x_x == Join(<<W_command, W_x, W_x>>)
Line_define_x_x_x == Join(<<W_command, W_x, W_x, W_amp, W_x>>)
Line_define_x_y == Join(<<W_command, W_x, W_y>>)
Line_define_y_x == Join(<<W_command, W_y, W_x>>)
Line_x == W_x

ReentrantLines ==
    {Line_define_x, Line_define_x_x, Line_define_x_x_x, Line_define_x_y,
     Line_define_y_x, Line_x, Line_y, Line_print_trailing}

\* The pending calls of sendCommand of one line that are followed, the
\* innermost ones: the calls a line leaves pending at the await of line 398
\* are bounded by the memory only, and a pending call does nothing until the
\* call it awaits returns.
MaxDepth == 5

\* The outermost calls of a line that are no longer followed.
Elided ==
    [coms |-> <<>>, i |-> 1, pc |-> "elided", call |-> NoCall,
     running |-> {}, started |-> <<>>, res |-> <<>>, depth |-> 1]

\* With MaxDepth calls pending, the two outermost ones are kept as one
\* entry that stands for all the callers of the calls followed.
Elide(t) ==
    /\ Ready(t)
    /\ Len(tasks[t]) = MaxDepth
    /\ tasks' = [tasks EXCEPT ![t] =
                    <<Elided>> \o SubSeq(tasks[t], 3, Len(tasks[t]))]
    /\ UNCHANGED <<enabled, heap, customCommands, commandfile, unhandled,
                   scan, others>>

\* An iteration of the loop of a call among the calls followed.
DispatchWithin(t) == Len(tasks[t]) < MaxDepth /\ Dispatch(t)

\* The call returns to a caller that is followed, or ends the line.
ReturnWithin(t) ==
    /\ Len(tasks[t]) >= 2 => tasks[t][Len(tasks[t]) - 1] # Elided
    /\ Return(t)

NextReentrant ==
    \/ \E input \in ReentrantLines : Submit(input)
    \/ \E t \in Slots : DispatchWithin(t)
    \/ \E t \in Slots : ReturnWithin(t)
    \/ \E t \in Slots : Elide(t)

SpecReentrant == Init /\ [][NextReentrant]_vars

\* Continuations in the microtask queue run.
FairReentrant ==
    /\ Init
    /\ [][NextReentrant]_vars
    /\ WF_vars(\E t \in Slots : DispatchWithin(t))
    /\ WF_vars(\E t \in Slots : ReturnWithin(t))
    /\ WF_vars(\E t \in Slots : Elide(t))

\* Every call that returns has its caller among the calls followed.
CallersFollowed ==
    \A t \in Slots :
        Ready(t) /\ Top(t).i > Len(Top(t).coms) /\ Len(tasks[t]) >= 2
            => tasks[t][Len(tasks[t]) - 1] # Elided

\* C21: dispatch of a line terminates: whatever the alias definitions are,
\* an alias that invokes itself or aliases that invoke each other in a cycle
\* included, every line that is running is completed later on (no handler
\* but the alias handlers is awaited on the lines of this specification).
C21_DispatchTerminates == \A t \in Slots : []<>(~Active(t))

\* ------------------------------------------------ the exported operations

\* The tree and the alias mapping are built and read through the exported
\* operations (Command.addCommand, removeCommand, findCommand, handle and
\* commands.addCustomCommand), called by the modules that register commands.
MaxNodes == 3

TreeNames == {W_x, W_undefined, W_toString}

\* The registrations made: a namespace or a command with a handler.
TreeHandlers == {NoHandler, PrintHandler}

\* foo bar baz on the tree root - foo - bar of the resolution example, with
\* x for foo, undefined for bar and x, which is no child of bar, for baz.
Toks_foo_bar_baz == <<W_x, W_undefined, W_x>>

TokenSeqs ==
    {<<>>} \cup {<<a>> : a \in TreeNames}
           \cup {<<a, b>> : a, b \in TreeNames} \cup {Toks_foo_bar_baz}

\* const rootCommand = new Command('', '', '') and an empty alias mapping.
InitTree ==
    /\ heap = [n \in {RootId} |-> NewCommand(<<>>, NoHandler, NoParent)]
    /\ customCommands = NoFile
    /\ commandfile = NoFile
    /\ enabled = TRUE
    /\ tasks = [t \in Slots |-> <<>>]
    /\ unhandled = FALSE
    /\ running = TRUE
    /\ api = ApiIdle
    /\ scan = ScanIdle

\* parent.addCommand(name, '', '', handler)
ApiAddCommand(p, name, handler) ==
    /\ Defined(heap, p, name) \/ Cardinality(DOMAIN heap) < MaxNodes
    /\ \E r \in {addCommand(heap, p, name, handler)} :
          /\ heap' = r.heap
          /\ api' = [op |-> "addCommand", node |-> p, name |-> name,
                     thrown |-> r.thrown, message |-> r.message]
    /\ UNCHANGED <<enabled, customCommands, commandfile, tasks, unhandled,
                   running, scan>>

\* parent.removeCommand(name)
ApiRemoveCommand(p, name) ==
    /\ \E h \in {removeCommand(heap, p, name)} :
          /\ heap' = h
          /\ api' = [op |-> "removeCommand", node |-> p, name |-> name,
                     thrown |-> FALSE, message |-> <<>>]
    /\ UNCHANGED <<enabled, customCommands, commandfile, tasks, unhandled,
                   running, scan>>

\* node.findCommand(input)
ApiFindCommand(n, input) ==
    /\ \E r \in {findCommand(heap, n, input)} :
          api' = [op |-> "findCommand", node |-> n, args |-> input,
                  thrown |-> r.thrown, found |-> r.node]
    /\ UNCHANGED <<enabled, heap, customCommands, commandfile, tasks,
                   unhandled, running, scan>>

\* rootCommand.handle(args), up to the call of the handler it selects (an
\* alias handler re-enters sendCommand, which is the interpreter's part).
ApiHandle(ts) ==
    /\ \E r \in {handle(heap, RootId, ts)} :
          /\ heap[r.node].handler.kind # "alias"
          /\ api' = [op |-> "handle", node |-> RootId, args |-> ts,
                     thrown |-> r.thrown, found |-> r.node,
                     passed |-> r.args, message |-> r.message]
    /\ UNCHANGED <<enabled, heap, customCommands, commandfile, tasks,
                   unhandled, running, scan>>

NextTree ==
    \/ \E p \in DOMAIN heap, name \in TreeNames, handler \in TreeHandlers :
          ApiAddCommand(p, name, handler)
    \/ \E p \in DOMAIN heap, name \in TreeNames : ApiRemoveCommand(p, name)
    \/ \E n \in DOMAIN heap, input \in TokenSeqs : ApiFindCommand(n, input)
    \/ \E ts \in TokenSeqs : ApiHandle(ts)

SpecTree == InitTree /\ [][NextTree]_vars

\* ------------------------------------- the exported operations: the claims

\* The node reached from n by the first k tokens of ts, each naming a child
\* registered under the node before it; NoParent when there is none.
RECURSIVE NodeAfter(_, _, _, _)
NodeAfter(h, n, ts, k) ==
    IF k = 0 THEN n
    ELSE LET m == NodeAfter(h, n, ts, k - 1)
         IN IF m # NoParent /\ ts[k] \in DOMAIN h[m].children
            THEN h[m].children[ts[k]]
            ELSE NoParent

\* The length of the longest prefix of ts that names a path below n.
Consumed(h, n, ts) ==
    CHOOSE k \in 0..Len(ts) :
        /\ NodeAfter(h, n, ts, k) # NoParent
        /\ \A j \in (k + 1)..Len(ts) : NodeAfter(h, n, ts, j) = NoParent

Resolved(h, n, ts) == NodeAfter(h, n, ts, Consumed(h, n, ts))

Unconsumed(h, n, ts) == SubSeq(ts, Consumed(h, n, ts) + 1, Len(ts))

\* The names on the way from the root to n, separated by spaces.
RECURSIVE PathOf(_, _)
PathOf(h, n) ==
    IF h[n].parent = NoParent THEN <<>>
    ELSE IF h[h[n].parent].parent = NoParent THEN h[n].name
    ELSE PathOf(h, h[n].parent) \o <<SP>> \o h[n].name

\* C11: findCommand returns, for every tree, start node and token sequence,
\* the node at the end of the longest prefix that names registered children
\* (the start node for an empty sequence), without throwing, and a call of
\* findCommand changes nothing in the tree or the alias mapping.
C11_ResolveGreedyPure ==
    /\ [](api.op = "findCommand" =>
            /\ ~api.thrown
            /\ api.found = Resolved(heap, api.node, api.args)
            /\ (api.args = <<>> => api.found = api.node))
    /\ [][api'.op = "findCommand" =>
            UNCHANGED <<heap, customCommands, commandfile>>]_vars

\* C12: handle from the root, on a non-empty token sequence, calls the
\* handler of the node findCommand resolves with the unconsumed tokens, and
\* when that node has no handler it calls none and throws the unknown-command
\* Error with the node's path and the first unconsumed token.
C12_DispatchAgreesWithResolve ==
    (api.op = "handle" /\ api.args # <<>>) =>
        LET node == Resolved(heap, RootId, api.args)
            rest == Unconsumed(heap, RootId, api.args)
        IN IF heap[node].handler # NoHandler
           THEN /\ ~api.thrown
                /\ api.found = node
                /\ api.passed = rest
           ELSE /\ api.thrown
                /\ api.found = node
                /\ rest # <<>> =>
                      api.message =
                          W_NoCommand
                            \o (IF node = RootId THEN <<>>
                                ELSE PathOf(heap, node) \o <<SP>>)
                            \o rest[1]

\* C13: addCommand throws exactly when the name is registered under that
\* parent; when it throws the tree is as before, and when it does not the
\* tree has one node more, the child of that name under that parent.
C13_AddCommandDuplicates ==
    [][api'.op = "addCommand" =>
          LET p == api'.node
              name == api'.name
          IN /\ api'.thrown <=> name \in DOMAIN heap[p].children
             /\ api'.thrown => heap' = heap
             /\ ~api'.thrown =>
                   /\ Cardinality(DOMAIN heap') = Cardinality(DOMAIN heap) + 1
                   /\ DOMAIN heap'[p].children =
                         DOMAIN heap[p].children \cup {name}
                   /\ heap'[p].children[name] \notin DOMAIN heap
                   /\ \A n \in DOMAIN heap \ {p} : heap'[n] = heap[n]
                   /\ \A k \in DOMAIN heap[p].children :
                         heap'[p].children[k] = heap[p].children[k]]_vars

\* ------------------------------------------------------- addCustomCommand

\* commands.addCustomCommand is exported: it is called with the names and
\* expansions other modules choose, on the tree the top level built.
AliasNames == {W_x, W_y, W_help, W_toString}

AliasExpansions == {<<W_print, W_a>>, <<W_x>>}

InitAlias ==
    /\ \E w \in {Startup(NoFile)} :
          /\ heap = w.heap
          /\ customCommands = w.customCommands
          /\ commandfile = w.commandfile
    /\ enabled = TRUE
    /\ tasks = [t \in Slots |-> <<>>]
    /\ unhandled = FALSE
    /\ running = TRUE
    /\ api = ApiIdle
    /\ scan = ScanIdle

\* commands.addCustomCommand(name, args)
ApiAddCustomCommand(name, ts) ==
    /\ \E w \in {addCustomCommand(World, name, ts)} :
          /\ heap' = w.heap
          /\ customCommands' = w.customCommands
          /\ commandfile' = w.commandfile
          /\ api' = [op |-> "addCustomCommand", node |-> RootId,
                     name |-> name, args |-> ts, thrown |-> w.thrown,
                     message |-> w.message]
    /\ UNCHANGED <<enabled, tasks, unhandled, running, scan>>

NextAlias ==
    \E name \in AliasNames, ts \in AliasExpansions :
        ApiAddCustomCommand(name, ts)

SpecAlias == InitAlias /\ [][NextAlias]_vars

\* C18: addCustomCommand does not throw, whatever the name, and after it the
\* alias mapping has name -> the joined expansion, the alias file is the
\* whole mapping, and every key of the mapping is a child of the root, the
\* one for name being the alias node of this expansion.
C18_DefineAliasAlwaysSucceeds ==
    api.op = "addCustomCommand" =>
        /\ ~api.thrown
        /\ api.name \in DOMAIN customCommands
        /\ customCommands[api.name] = Join(api.args)
        /\ commandfile = customCommands
        /\ \A k \in DOMAIN customCommands : HasChild(heap, RootId, k)
        /\ HasChild(heap, RootId, api.name)
        /\ heap[heap[RootId].children[api.name]].handler
              = AliasHandler(api.args)

\* ------------------------------------------------- the tree's structure

\* The tree under any sequence of calls of addCommand, removeCommand and
\* addCustomCommand. The handler of command calls
\* addCustomCommand(args[0], args.slice(1)) (line 402): with the line
\* "command" alone the name is undefined and the expansion is empty.
OwnedNames == {W_x, Undefined}

OwnedExpansions == {<<>>, <<W_print, W_a>>}

NextOwned ==
    \/ \E p \in DOMAIN heap, name \in TreeNames, handler \in TreeHandlers :
          ApiAddCommand(p, name, handler)
    \/ \E p \in DOMAIN heap, name \in TreeNames : ApiRemoveCommand(p, name)
    \/ \E name \in OwnedNames, ts \in OwnedExpansions :
          ApiAddCustomCommand(name, ts)

SpecOwned == InitTree /\ [][NextOwned]_vars

\* The <<parent, key>> pairs under which node n is stored.
StoredAt(h, n) ==
    {pk \in UNION {{<<p, k>> : k \in DOMAIN h[p].children} : p \in DOMAIN h} :
        h[pk[1]].children[pk[2]] = n}

\* Every node stored under key k of p's children has name k and parent p.
NamedAndOwned(h) ==
    \A p \in DOMAIN h : \A k \in DOMAIN h[p].children :
        /\ h[p].children[k] \in DOMAIN h
        /\ h[h[p].children[k]].name = k
        /\ h[h[p].children[k]].parent = p

\* The root has no parent and no other node the root reaches is without one.
RootAlone(h) ==
    /\ h[RootId].parent = NoParent
    /\ \A n \in Reach(h, {RootId}) : h[n].parent = NoParent => n = RootId

\* No node is reached from the root by two paths: the root is stored
\* nowhere and every other node it reaches is stored in one place.
OnePath(h) ==
    \A n \in Reach(h, {RootId}) :
        Cardinality(StoredAt(h, n)) = (IF n = RootId THEN 0 ELSE 1)

\* C22: after any sequence of addCommand, removeCommand and addCustomCommand
\* calls, every node stored under key k of a parent p has name k and parent
\* p, the root is the only node without a parent, and no node is reached
\* from the root by two paths.
C22_TreeStructure ==
    /\ NamedAndOwned(heap)
    /\ RootAlone(heap)
    /\ OnePath(heap)

\* ---------------------------------------------------- the tokenizer, stepwise

\* splitArgs is entered with any input string (the interpreter at rest).
InitTok ==
    /\ \E str \in StringsUpTo(MaxLen) \cup TokExamples :
          scan = [pc |-> "loop", command |-> str, i |-> 1,
                  st |-> ScanStart, result |-> <<>>]
    /\ heap = Startup(NoFile).heap
    /\ customCommands = NoFile
    /\ commandfile = NoFile
    /\ enabled = TRUE
    /\ tasks = [t \in Slots |-> <<>>]
    /\ unhandled = FALSE
    /\ running = TRUE
    /\ api = ApiIdle

\* for (let i = 0; i < command.length; ++i) { ... }: one iteration.
ScanChar ==
    /\ scan.pc = "loop"
    /\ scan.i <= Len(scan.command)
    /\ scan' = [scan EXCEPT !.st = SplitStep(scan.st, scan.command[scan.i]),
                            !.i = scan.i + 1]
    /\ UNCHANGED <<enabled, heap, customCommands, commandfile, tasks,
                   unhandled, others>>

\* The loop is over: flush, filter and return.
ScanReturn ==
    /\ scan.pc = "loop"
    /\ scan.i > Len(scan.command)
    /\ scan' = [scan EXCEPT !.pc = "done", !.result = Flush(scan.st)]
    /\ UNCHANGED <<enabled, heap, customCommands, commandfile, tasks,
                   unhandled, others>>

NextTok == ScanChar \/ ScanReturn

SpecTok == InitTok /\ [][NextTok]_vars

\* ------------------------------------------------- tokenizer: the claims

Chars(str) == {str[k] : k \in 1..Len(str)}

RECURSIVE Ascending(_)
Ascending(S) ==
    IF S = {} THEN <<>>
    ELSE LET m == CHOOSE x \in S : \A y \in S : x <= y
         IN <<m>> \o Ascending(S \ {m})

\* The maximal runs of non-space characters of str, left to right.
RunStarts(str) ==
    {s \in 1..Len(str) : str[s] # SP /\ (s = 1 \/ str[s - 1] = SP)}

RunEnd(str, s) ==
    CHOOSE e \in s..Len(str) :
        /\ \A k \in s..e : str[k] # SP
        /\ (e = Len(str) \/ str[e + 1] = SP)

Runs(str) ==
    LET starts == Ascending(RunStarts(str))
    IN [n \in 1..Len(starts) |-> SubSeq(str, starts[n], RunEnd(str, starts[n]))]

\* A space outside every quoted span: an even number of quotes precedes it.
QuotesBefore(str, k) == Cardinality({j \in 1..(k - 1) : str[j] = QUOTE})

IsBoundary(str, k) == str[k] = SP /\ QuotesBefore(str, k) % 2 = 0

SegStarts(str) ==
    {s \in 1..(Len(str) + 1) : s = 1 \/ IsBoundary(str, s - 1)}

SegEnd(str, s) ==
    LET later == {b \in s..Len(str) : IsBoundary(str, b)}
    IN IF later = {} THEN Len(str)
       ELSE (CHOOSE b \in later : \A x \in later : b <= x) - 1

IsNotQuote(c) == c # QUOTE

IsNotEmpty(t) == t # <<>>

\* The text between unquoted spaces, quotes removed, empty pieces dropped.
QuotedRuns(str) ==
    LET starts == Ascending(SegStarts(str))
        segs == [n \in 1..Len(starts) |->
                    SelectSeq(SubSeq(str, starts[n], SegEnd(str, starts[n])),
                              IsNotQuote)]
    IN SelectSeq(segs, IsNotEmpty)

\* C8: a backslash inside a quoted span escapes only the one character after
\* it: whenever the escape flag is set the character just scanned is that
\* backslash, and a "b\"c" d tokenizes to a, b"c, d.
C8_EscapeOneCharacter ==
    /\ (scan.pc = "loop" /\ scan.st.escaped)
          => (scan.i > 1 /\ scan.command[scan.i - 1] = BSLASH)
    /\ (scan.pc = "done" /\ scan.command = Ex_escaped)
          => scan.result = <<<<"a">>, <<"b", QUOTE, "c">>, <<"d">>>>

\* C9: splitArgs returns no empty token, and on an input without a quote it
\* returns the maximal runs of non-space characters in order.
C9_NoEmptyAndRuns ==
    scan.pc = "done" =>
        /\ \A k \in 1..Len(scan.result) : scan.result[k] # <<>>
        /\ (QUOTE \notin Chars(scan.command)
              => scan.result = Runs(scan.command))

\* C9 witness: a quote-free input with a backslash and a doubled space that
\* was tokenized into two tokens.
C9_Witness ==
    /\ scan.pc = "done"
    /\ QUOTE \notin Chars(scan.command)
    /\ BSLASH \in Chars(scan.command)
    /\ \E k \in 1..(Len(scan.command) - 1) :
           scan.command[k] = SP /\ scan.command[k + 1] = SP
    /\ Len(scan.result) = 2

\* C10: on an input without a backslash the tokens are the pieces between
\* the spaces that lie outside quoted spans, with the quotes removed (an
\* open span ends with the input), and no token contains a quote.
C10_QuoteToggles ==
    (scan.pc = "done" /\ BSLASH \notin Chars(scan.command)) =>
        /\ scan.result = QuotedRuns(scan.command)
        /\ \A k \in 1..Len(scan.result) : QUOTE \notin Chars(scan.result[k])
        /\ (scan.command = Ex_unterminated
              => scan.result = <<<<"a">>, <<"b", SP, "c">>>>)

\* C10 witness: a "b c has been tokenized with its span left open.
C10_Witness ==
    /\ scan.pc = "done"
    /\ scan.command = Ex_unterminated
    /\ scan.st.inString
    /\ scan.result = <<<<"a">>, <<"b", SP, "c">>>>

====
